---- MODULE Spec2Model ----
(***************************************************************************)
(* SecureFileShare: the share-link validator (models.py, class Share),     *)
(* the file version chains (models.py, class File), the chunk assembler    *)
(* (utils.py, save_file_chunks), the crypto engine (utils.py,              *)
(* encrypt_file and decrypt_file) and the password-reset token of a user   *)
(* (models.py, class User).                                                *)
(*                                                                         *)
(* The database tables are functions whose DOMAIN is the set of primary    *)
(* keys of the rows that exist.  A nullable column holds <<>> (NULL/None)   *)
(* or <<v>>.  Every request handler works on its own ORM session: the row  *)
(* it queried is a private copy, and a commit writes the changed column    *)
(* back to the table.                                                      *)
(***************************************************************************)
EXTENDS Integers, Sequences, FiniteSets, TLC

VARIABLES
    now,        \* datetime.utcnow(), in ticks
    shares,     \* table share: id -> row
    files,      \* table file: id -> row
    req,        \* per request worker: the share-access handler's position and locals
    secret,     \* history: the plaintext password each share was created with
    attempts,   \* history: accesses of a share that reached a verdict
    granted,    \* history: accesses of a share that succeeded
    started,    \* history: requests started so far
    up,         \* per upload worker: the new-version handler's position and locals
    seen,       \* what the last current(chain) query returned
    dir,        \* the chunk working directory: file name -> bytes
    fragments,  \* history: the working directory when assembly started
    reads,      \* history: how often each file of the directory was read
    asm,        \* save_file_chunks: its position and locals
    user,       \* one row of table user: its password-reset columns
    issued,     \* tokens uuid4 has produced so far
    reset,      \* history: the latest token in force and when it was generated
    verified,   \* history: the last verify_password_reset_token call
    blob,       \* the encrypted file at output_file_path
    enc,        \* history: the last encrypt_file call that returned
    dec         \* history: the last decrypt_file call

versionVars == <<up, seen>>
chunkVars == <<dir, fragments, reads, asm>>
resetVars == <<user, issued, reset, verified>>
cryptoVars == <<blob, enc, dec>>
vars == <<now, shares, files, req, secret, attempts, granted, started,
          versionVars, chunkVars, resetVars, cryptoVars>>

(***************************** bounds **************************************)
MaxTime == 2        \* the clock runs 0..MaxTime
MaxMax == 2         \* largest max_downloads a share is created with
MaxRequests == 3    \* share-access requests started in one run
MaxPw == 2          \* passwords are 0..MaxPw, 0 being the empty string
MaxSalt == 1        \* salts are 0..MaxSalt
MaxShares == 2      \* primary keys of share
MaxFiles == 4       \* primary keys of file
MaxChunks == 3      \* fragments in a working directory
MaxTokens == 2      \* password-reset tokens generated in one run
MaxLen == 1         \* payloads are up to MaxLen bits long
MaxKey == 1         \* key values are 0..MaxKey
MaxNonce == 1       \* nonces are 0..MaxNonce

Workers == {"w1", "w2"}
ShareIds == 1..MaxShares
FileIds == 1..MaxFiles
Passwords == 0..MaxPw
Salts == 0..MaxSalt

(************************** nullable columns *******************************)
None == <<>>
Some(v) == <<v>>
IsSet(x) == x # None
Val(x) == x[1]

Min(a, b) == IF a <= b THEN a ELSE b

(******************************* Share *************************************)
\* werkzeug's salted hash: the digest depends on the salt and on the password.
Digest(pw, salt) == pw * (MaxSalt + 1) + salt

GeneratePasswordHash(pw, salt) == [salt |-> salt, digest |-> Digest(pw, salt)]

CheckPasswordHash(h, pw) == Digest(pw, h.salt) = h.digest

\* Share.set_password: an empty password stores no verifier.
SetPassword(pw, salt) ==
    IF pw # 0 THEN Some(GeneratePasswordHash(pw, salt)) ELSE None

\* Mutant: the guard on the missing verifier inverted.
CheckPasswordInverted(sh, pw) ==
    IF IsSet(sh.password_hash) THEN TRUE ELSE FALSE

\* Share.check_password
CheckPassword(sh, pw) ==
    IF ~IsSet(sh.password_hash) THEN TRUE
    ELSE CheckPasswordHash(Val(sh.password_hash), pw)

\* Python truthiness of a nullable integer column: None and 0 are false.
Truthy(x) == IsSet(x) /\ Val(x) # 0

\* Mutant: the quota compared with > instead of >=.
IsValidOffByOne(sh, t) ==
    IF IsSet(sh.expires_at) /\ Val(sh.expires_at) < t THEN FALSE
    ELSE IF Truthy(sh.max_downloads) /\ sh.download_count > Val(sh.max_downloads)
         THEN FALSE
    ELSE TRUE

\* Share.is_valid, at utcnow() = t
IsValid(sh, t) ==
    IF IsSet(sh.expires_at) /\ Val(sh.expires_at) < t THEN FALSE
    ELSE IF Truthy(sh.max_downloads) /\ sh.download_count >= Val(sh.max_downloads)
         THEN FALSE
    ELSE TRUE

\* The error kind of a share that is not valid, in is_valid's order of tests.
ErrorKind(sh, t) ==
    IF IsSet(sh.expires_at) /\ Val(sh.expires_at) < t THEN "Expired" ELSE "Exhausted"

\* Share(...): the column defaults of a new row.
NewShare(file_id, expires_at, max_downloads, password_hash) ==
    [file_id |-> file_id, expires_at |-> expires_at, max_downloads |-> max_downloads,
     download_count |-> 0, password_hash |-> password_hash]

(******************************** File *************************************)
\* Mutant: version numbering that starts at 0.
FileDefaultsFromZero == [parent_id |-> None, version |-> 0, is_current |-> TRUE]

\* File(...): the column defaults of a new row (parent_id NULL, version 1,
\* is_current true).
FileDefaults == [parent_id |-> None, version |-> 1, is_current |-> TRUE]

IdleReq == [pc |-> "idle", share |-> 0, obj |-> None, password |-> 0, result |-> "none"]

Insert(table, id, row) ==
    [x \in DOMAIN table \cup {id} |-> IF x = id THEN row ELSE table[x]]

Remove(table, ids) == [x \in DOMAIN table \ ids |-> table[x]]

(*************************** share access **********************************)
\* The handler queries the share by its token.
Lookup(w, s) ==
    /\ req[w].pc = "idle"
    /\ started < MaxRequests
    /\ started' = started + 1
    /\ IF s \in DOMAIN shares
       THEN req' = [req EXCEPT ![w] = [pc |-> "loaded", share |-> s,
                                       obj |-> Some(shares[s]), password |-> 0,
                                       result |-> "none"]]
       ELSE req' = [req EXCEPT ![w] = [pc |-> "idle", share |-> s, obj |-> None,
                                       password |-> 0, result |-> "NotFound"]]
    /\ UNCHANGED <<resetVars, cryptoVars, now, shares, files, secret, attempts, granted,
                 versionVars, chunkVars>>

\* share.is_valid() on the session's copy of the row.
Validate(w) ==
    /\ req[w].pc = "loaded"
    /\ LET sh == Val(req[w].obj)
           s == req[w].share
       IN IF IsValid(sh, now)
          THEN /\ req' = [req EXCEPT ![w].pc = "valid"]
               /\ UNCHANGED attempts
          ELSE /\ req' = [req EXCEPT ![w].pc = "idle", ![w].obj = None,
                                     ![w].result = ErrorKind(sh, now)]
               /\ attempts' = [attempts EXCEPT ![s] = @ + 1]
    /\ UNCHANGED <<resetVars, cryptoVars, now, shares, files, secret, granted, started,
                 versionVars, chunkVars>>

\* share.check_password(supplied)
Authenticate(w, pw) ==
    /\ req[w].pc = "valid"
    /\ LET sh == Val(req[w].obj)
           s == req[w].share
       IN IF CheckPassword(sh, pw)
          THEN /\ req' = [req EXCEPT ![w].pc = "authed", ![w].password = pw]
               /\ UNCHANGED attempts
          ELSE /\ req' = [req EXCEPT ![w].pc = "idle", ![w].obj = None,
                                     ![w].password = pw,
                                     ![w].result = "WrongPassword"]
               /\ attempts' = [attempts EXCEPT ![s] = @ + 1]
    /\ UNCHANGED <<resetVars, cryptoVars, now, shares, files, secret, granted, started,
                 versionVars, chunkVars>>

\* Share.increment_download_count: self.download_count += 1 on the session's
\* copy, then the commit's UPDATE of that column; the UPDATE of a row that was
\* deleted meanwhile matches nothing and the commit raises.
IncrementDownloadCount(w) ==
    /\ req[w].pc = "authed"
    /\ LET sh == Val(req[w].obj)
           s == req[w].share
       IN /\ attempts' = [attempts EXCEPT ![s] = @ + 1]
          /\ IF s \in DOMAIN shares
             THEN /\ shares' = [shares EXCEPT ![s].download_count = sh.download_count + 1]
                  /\ granted' = [granted EXCEPT ![s] = @ + 1]
                  /\ req' = [req EXCEPT ![w].pc = "idle", ![w].obj = None,
                                        ![w].result = "ok"]
             ELSE /\ req' = [req EXCEPT ![w].pc = "idle", ![w].obj = None,
                                        ![w].result = "Error"]
                  /\ UNCHANGED <<shares, granted>>
    /\ UNCHANGED <<resetVars, cryptoVars, now, files, secret, started,
                 versionVars, chunkVars>>

\* The owner revokes the share: the row is deleted.
Revoke(s) ==
    /\ s \in DOMAIN shares
    /\ shares' = Remove(shares, {s})
    /\ UNCHANGED <<resetVars, cryptoVars, now, files, req, secret, attempts, granted, started,
                 versionVars, chunkVars>>

Tick ==
    /\ now < MaxTime
    /\ now' = now + 1
    /\ UNCHANGED <<resetVars, cryptoVars, shares, files, req, secret, attempts, granted, started,
                 versionVars, chunkVars>>


(*************************** version chains ********************************)
accessVars == <<now, req, secret, attempts, granted, started>>

Uploaders == {"u1", "u2"}

IdleUp == [pc |-> "idle", head |-> 0, result |-> "none"]

NoRead == [status |-> "none", file |-> 0]

MaxOf(S) == CHOOSE x \in S : \A y \in S : y <= x

\* The primary key the database gives the next row of a table.
NextId(table) == IF DOMAIN table = {} THEN 1 ELSE MaxOf(DOMAIN table) + 1

\* The first version of the chain of f: parent references followed to the end.
RECURSIVE Root(_)
Root(f) ==
    IF IsSet(files[f].parent_id) /\ Val(files[f].parent_id) \in DOMAIN files
    THEN Root(Val(files[f].parent_id))
    ELSE f

\* The version chain of f: the files linked transitively by parent.
Chain(f) == {g \in DOMAIN files : Root(g) = Root(f)}

CurrentOf(f) == {g \in Chain(f) : files[g].is_current}

\* Initial upload: a File row with the column defaults.
UploadFile ==
    /\ NextId(files) <= MaxFiles
    /\ files' = Insert(files, NextId(files), FileDefaults)
    /\ UNCHANGED <<resetVars, cryptoVars, shares, accessVars, versionVars, chunkVars>>

\* upload_new_version is called on the chain head the caller sees.
BeginVersion(u, f) ==
    /\ up[u].pc = "idle"
    /\ f \in DOMAIN files
    /\ files[f].is_current
    /\ up' = [up EXCEPT ![u] = [pc |-> "pending", head |-> f, result |-> "none"]]
    /\ UNCHANGED <<resetVars, cryptoVars, shares, files, accessVars, seen, chunkVars>>

\* Mutant: the transaction does not look at the head's is_current again.
HeadStillThere(fs, h) == h \in DOMAIN fs

\* The transaction's check that h is still the current head of its chain.
HeadIsCurrent(fs, h) == h \in DOMAIN fs /\ fs[h].is_current

\* The table after the transaction: the new row with parent = h and
\* version = h.version + 1 inserted, and h no longer current.
WithNewVersion(fs, h) ==
    Insert([fs EXCEPT ![h].is_current = FALSE], NextId(fs),
           [FileDefaults EXCEPT !.parent_id = Some(h),
                                !.version = fs[h].version + 1,
                                !.is_current = TRUE])

\* upload_new_version commits both mutations as one transaction, or fails.
CommitVersion(u) ==
    /\ up[u].pc = "pending"
    /\ NextId(files) <= MaxFiles
    /\ IF HeadIsCurrent(files, up[u].head)
       THEN /\ files' = WithNewVersion(files, up[u].head)
            /\ up' = [up EXCEPT ![u].pc = "idle", ![u].result = "ok"]
       ELSE /\ up' = [up EXCEPT ![u].pc = "idle", ![u].result = "Conflict"]
            /\ UNCHANGED files
    /\ UNCHANGED <<resetVars, cryptoVars, shares, accessVars, seen, chunkVars>>

\* current(chain): the unique current member, or ChainInvariantViolation.
ReadCurrent(f) ==
    /\ f \in DOMAIN files
    /\ seen' = IF Cardinality(CurrentOf(f)) = 1
               THEN [status |-> "ok", file |-> CHOOSE g \in CurrentOf(f) : TRUE]
               ELSE [status |-> "ChainInvariantViolation", file |-> 0]
    /\ UNCHANGED <<resetVars, cryptoVars, shares, files, accessVars, up, chunkVars>>

\* A share link is created on a file.
CreateShare(f) ==
    /\ f \in DOMAIN files
    /\ NextId(shares) <= MaxShares
    /\ shares' = Insert(shares, NextId(shares), NewShare(f, None, None, None))
    /\ UNCHANGED <<resetVars, cryptoVars, files, accessVars, versionVars, chunkVars>>

\* The rows the relationship File.previous_versions reaches from the rows S:
\* the files whose parent_id is one of them, and theirs.
RECURSIVE Cascade(_)
Cascade(S) ==
    LET kids == {g \in DOMAIN files :
                    IsSet(files[g].parent_id) /\ Val(files[g].parent_id) \in S}
    IN IF kids \subseteq S THEN S ELSE Cascade(S \cup kids)

\* db.session.delete(file): the delete cascades along File.previous_versions
\* and File.shares.
DeleteFile(f) ==
    /\ f \in DOMAIN files
    /\ LET gone == Cascade({f})
       IN /\ files' = Remove(files, gone)
          /\ shares' = Remove(shares, {s \in DOMAIN shares : shares[s].file_id \in gone})
    /\ UNCHANGED <<resetVars, cryptoVars, accessVars, versionVars, chunkVars>>


(*************************** chunk assembly ********************************)
\* A file name is the sequence of its '_'-separated parts: "chunk_10" is
\* <<"chunk", <<1, 0>>>>, the second part being its decimal digits.
DigitStrings ==
    {<<0>>, <<1>>, <<2>>, <<9>>, <<1, 0>>, <<1, 1>>,
     <<0, 0>>, <<0, 1>>, <<0, 2>>, <<0, 9>>}

ChunkNames == {<<"chunk", ds>> : ds \in DigitStrings}

MetaName == <<"meta", <<0>>>>

Contents == {<<"A">>, <<"B", "C">>}

\* f.startswith('chunk_')
IsChunk(name) == name[1] = "chunk"

\* int(digits)
RECURSIVE ParseInt(_)
ParseInt(ds) ==
    IF ds = <<>> THEN 0
    ELSE ParseInt(SubSeq(ds, 1, Len(ds) - 1)) * 10 + ds[Len(ds)]

\* Mutant: the names compared as strings (the digits left to right).
LexKey(name) ==
    name[2][1] * 11 + (IF Len(name[2]) > 1 THEN name[2][2] + 1 ELSE 0)

\* key=lambda x: int(x.split('_')[1])
ChunkKey(name) == ParseInt(name[2])

\* sorted(..., key=...): a stable sort, as an insertion from the left.
RECURSIVE InsertByKey(_, _)
InsertByKey(s, x) ==
    IF s = <<>> THEN <<x>>
    ELSE IF ChunkKey(s[Len(s)]) <= ChunkKey(x) THEN Append(s, x)
    ELSE Append(InsertByKey(SubSeq(s, 1, Len(s) - 1), x), s[Len(s)])

RECURSIVE SortedByKey(_)
SortedByKey(s) ==
    IF s = <<>> THEN <<>>
    ELSE InsertByKey(SortedByKey(SubSeq(s, 1, Len(s) - 1)), s[Len(s)])

\* The orders os.listdir may return the names of S in.
RECURSIVE Listings(_)
Listings(S) ==
    IF S = {} THEN {<<>>}
    ELSE UNION {{<<x>> \o l : l \in Listings(S \ {x})} : x \in S}

IdleAsm ==
    [pc |-> "idle", chunk_files |-> <<>>, i |-> 0, out |-> None, error |-> None]

NoReads == [n \in ChunkNames \cup {MetaName} |-> 0]

\* chunk_files = sorted([f for f in os.listdir(chunks_dir) if ...], key=...)
ListAndSort ==
    /\ asm.pc = "start"
    /\ \E listing \in Listings(DOMAIN dir) :
          asm' = [asm EXCEPT !.pc = "sorted",
                             !.chunk_files = SortedByKey(SelectSeq(listing, IsChunk))]
    /\ UNCHANGED <<resetVars, cryptoVars, shares, files, accessVars, versionVars, dir, fragments, reads>>

\* The temporary file is created and opened for writing.
CreateTemp ==
    /\ asm.pc = "sorted"
    /\ asm' = [asm EXCEPT !.pc = "copy", !.i = 1, !.out = Some(<<>>)]
    /\ UNCHANGED <<resetVars, cryptoVars, shares, files, accessVars, versionVars, dir, fragments, reads>>

\* outfile.write(infile.read()) for the next chunk.
CopyChunk ==
    /\ asm.pc = "copy"
    /\ asm.i <= Len(asm.chunk_files)
    /\ asm' = [asm EXCEPT !.pc = "unlink",
                          !.out = Some(Val(asm.out) \o dir[asm.chunk_files[asm.i]])]
    /\ reads' = [reads EXCEPT ![asm.chunk_files[asm.i]] = @ + 1]
    /\ UNCHANGED <<resetVars, cryptoVars, shares, files, accessVars, versionVars, dir, fragments>>

\* open(chunk_path, 'rb') or infile.read() raises.
ReadFails ==
    /\ asm.pc = "copy"
    /\ asm.i <= Len(asm.chunk_files)
    /\ asm' = [asm EXCEPT !.pc = "failed", !.error = Some("read")]
    /\ UNCHANGED <<resetVars, cryptoVars, shares, files, accessVars, versionVars, dir, fragments, reads>>

\* outfile.write raises after any part of the chunk reached the file.
WriteFails ==
    /\ asm.pc = "copy"
    /\ asm.i <= Len(asm.chunk_files)
    /\ \E k \in 0..Len(dir[asm.chunk_files[asm.i]]) :
          asm' = [asm EXCEPT !.pc = "failed", !.error = Some("write"),
                             !.out = Some(Val(asm.out)
                                          \o SubSeq(dir[asm.chunk_files[asm.i]], 1, k))]
    /\ reads' = [reads EXCEPT ![asm.chunk_files[asm.i]] = @ + 1]
    /\ UNCHANGED <<resetVars, cryptoVars, shares, files, accessVars, versionVars, dir, fragments>>

\* Mutant: the loop moves on without removing the chunk.
UnlinkChunkKeeps ==
    /\ asm.pc = "unlink"
    /\ asm' = [asm EXCEPT !.pc = "copy", !.i = asm.i + 1]
    /\ UNCHANGED <<resetVars, cryptoVars, shares, files, accessVars, versionVars, dir, fragments, reads>>

\* os.unlink(chunk_path)
UnlinkChunk ==
    /\ asm.pc = "unlink"
    /\ dir' = Remove(dir, {asm.chunk_files[asm.i]})
    /\ asm' = [asm EXCEPT !.pc = "copy", !.i = asm.i + 1]
    /\ UNCHANGED <<resetVars, cryptoVars, shares, files, accessVars, versionVars, fragments, reads>>

\* os.unlink(chunk_path) raises.
UnlinkFails ==
    /\ asm.pc = "unlink"
    /\ asm' = [asm EXCEPT !.pc = "failed", !.error = Some("unlink")]
    /\ UNCHANGED <<resetVars, cryptoVars, shares, files, accessVars, versionVars, dir, fragments, reads>>

\* Mutant: the handler re-raises without removing the temporary file.
CleanupKeepsOutput ==
    /\ asm.pc = "failed"
    /\ asm' = [asm EXCEPT !.pc = "raised"]
    /\ UNCHANGED <<resetVars, cryptoVars, shares, files, accessVars, versionVars, dir, fragments, reads>>

\* except: if os.path.exists(temp_path): os.unlink(temp_path); raise e
Cleanup ==
    /\ asm.pc = "failed"
    /\ asm' = [asm EXCEPT !.pc = "raised", !.out = None]
    /\ UNCHANGED <<resetVars, cryptoVars, shares, files, accessVars, versionVars, dir, fragments, reads>>

\* return temp_path
ReturnPath ==
    /\ asm.pc = "copy"
    /\ asm.i > Len(asm.chunk_files)
    /\ asm' = [asm EXCEPT !.pc = "done"]
    /\ UNCHANGED <<resetVars, cryptoVars, shares, files, accessVars, versionVars, dir, fragments, reads>>

(*************************** password reset ********************************)
\* The time unit of the clock is one hour: timedelta(hours=1).
ResetLifetime == 1

\* uuid.uuid4().hex: the k-th call returns token k, a value no earlier call
\* returned.
Tokens == 1..MaxTokens

\* What a caller can pass as the token: None, or any token, issued or not.
TokenArgs == {None} \cup {Some(k) : k \in Tokens}

\* User(...): both reset columns are NULL.
NewUser == [password_reset_token |-> None, password_reset_expiry |-> None]

NoReset ==
    /\ user = NewUser
    /\ issued = 0
    /\ reset = [token |-> None, at |-> 0]
    /\ verified = None

\* User.generate_password_reset_token
GeneratePasswordResetToken ==
    /\ issued < MaxTokens
    /\ issued' = issued + 1
    /\ user' = [password_reset_token |-> Some(issued + 1),
                password_reset_expiry |-> Some(now + ResetLifetime)]
    /\ reset' = [token |-> Some(issued + 1), at |-> now]
    /\ UNCHANGED <<shares, files, accessVars, versionVars, chunkVars, cryptoVars,
                   verified>>

\* Mutant: a token is still accepted at the instant of its expiry.
VerifyAtExpiry(u, token, t) ==
    /\ u.password_reset_token = token
    /\ IsSet(u.password_reset_expiry)
    /\ Val(u.password_reset_expiry) >= t

\* The condition of User.verify_password_reset_token, at utcnow() = t.  None
\* equals None in Python; a datetime is truthy, None is not.
VerifyToken(u, token, t) ==
    /\ u.password_reset_token = token
    /\ IsSet(u.password_reset_expiry)
    /\ Val(u.password_reset_expiry) > t

\* User.verify_password_reset_token(token)
VerifyPasswordResetToken(token) ==
    /\ verified' = Some([arg |-> token, result |-> VerifyToken(user, token, now),
                         at |-> now, latest |-> reset])
    /\ UNCHANGED <<shares, files, accessVars, versionVars, chunkVars, cryptoVars,
                   user, issued, reset>>

\* User.clear_password_reset_token
ClearPasswordResetToken ==
    /\ user' = [password_reset_token |-> None, password_reset_expiry |-> None]
    /\ reset' = [token |-> None, at |-> 0]
    /\ UNCHANGED <<shares, files, accessVars, versionVars, chunkVars, cryptoVars,
                   issued, verified>>
(***************************** crypto engine *******************************)
\* config: ENCRYPTION_KEY_LENGTH, in bytes
ENCRYPTION_KEY_LENGTH == 32

\* The key lengths AESGCM(key) accepts; any other raises ValueError.
KeySizes == {16, 24, 32}

\* The lengths of the keys a caller supplies: one that AESGCM refuses, a
\* 128-bit key and a key of the configured length.
SuppliedSizes == {8, 16, ENCRYPTION_KEY_LENGTH}

Bits == 0..1
Payloads == UNION {[1..n -> Bits] : n \in 0..MaxLen}
KeyValues == 0..MaxKey
Keys == [len : SuppliedSizes, v : KeyValues]
Nonces == 0..MaxNonce

\* The key stream of the counter mode at position i.
Stream(key, nonce, i) == (key.v + nonce + i) % 2

Ctr(key, nonce, data) ==
    [i \in 1..Len(data) |-> (data[i] + Stream(key, nonce, i)) % 2]

\* The authentication tag over the ciphertext under (key, nonce), as an ideal
\* MAC: two tags are equal only if key, nonce and ciphertext are, and a tag
\* with a flipped bit is the tag of nothing.
Tag(key, nonce, body) == [key |-> key, nonce |-> nonce, body |-> body, flipped |-> FALSE]

\* AESGCM(key).encrypt(nonce, plaintext, None): the ciphertext, then the tag.
AesGcmEncrypt(key, nonce, plaintext) ==
    [body |-> Ctr(key, nonce, plaintext), tag |-> Tag(key, nonce, Ctr(key, nonce, plaintext))]

\* Mutant: the tag is not looked at.
VerifiesAlways(key, nonce, ct) == TRUE

Verifies(key, nonce, ct) == ct.tag = Tag(key, nonce, ct.body)

\* Mutant: the key stream taken one position late.
AesGcmDecryptShifted(key, nonce, ct) ==
    IF Verifies(key, nonce, ct)
    THEN Some([i \in 1..Len(ct.body) |-> (ct.body[i] + Stream(key, nonce, i + 1)) % 2])
    ELSE None

\* AESGCM(key).decrypt(nonce, ciphertext, None): the plaintext, or None for
\* raising InvalidTag.
AesGcmDecrypt(key, nonce, ct) ==
    IF Verifies(key, nonce, ct) THEN Some(Ctr(key, nonce, ct.body)) ELSE None

NoCrypto == blob = None /\ enc = None /\ dec = None

\* encrypt_file(plaintext, output_file_path, key), key being None or supplied;
\* k and n are what get_random_bytes returns.  A storage name is generated
\* per file, so a path is encrypted to once.
EncryptFile(plaintext, key, k, n) ==
    /\ enc = None
    /\ LET key1 == IF key = None THEN [len |-> ENCRYPTION_KEY_LENGTH, v |-> k]
                   ELSE Val(key)
           ciphertext == AesGcmEncrypt(key1, n, plaintext)
       IN IF key1.len \in KeySizes
          THEN /\ blob' = Some(ciphertext)
               /\ enc' = Some([payload |-> plaintext, key |-> key1, nonce |-> n,
                               blob |-> ciphertext, supplied |-> IsSet(key)])
          ELSE UNCHANGED <<blob, enc>>
    /\ UNCHANGED <<shares, files, accessVars, versionVars, chunkVars, resetVars, dec>>

\* One bit of the stored ciphertext is flipped.
FlipBit(i) ==
    /\ IsSet(blob)
    /\ i \in 1..Len(Val(blob).body)
    /\ blob' = Some([Val(blob) EXCEPT !.body[i] = 1 - @])
    /\ UNCHANGED <<shares, files, accessVars, versionVars, chunkVars, resetVars, enc, dec>>

\* One bit of the stored tag is flipped.
FlipTagBit ==
    /\ IsSet(blob)
    /\ blob' = Some([Val(blob) EXCEPT !.tag.flipped = ~@])
    /\ UNCHANGED <<shares, files, accessVars, versionVars, chunkVars, resetVars, enc, dec>>

\* decrypt_file(file_path, key, nonce)
DecryptFile(key, nonce) ==
    /\ dec' = Some(
          IF key.len \notin KeySizes
          THEN [key |-> key, nonce |-> nonce, read |-> None,
                status |-> "ValueError", plaintext |-> None]
          ELSE IF blob = None
          THEN [key |-> key, nonce |-> nonce, read |-> None,
                status |-> "FileNotFoundError", plaintext |-> None]
          ELSE IF AesGcmDecrypt(key, nonce, Val(blob)) = None
          THEN [key |-> key, nonce |-> nonce, read |-> blob,
                status |-> "InvalidTag", plaintext |-> None]
          ELSE [key |-> key, nonce |-> nonce, read |-> blob,
                status |-> "ok", plaintext |-> AesGcmDecrypt(key, nonce, Val(blob))])
    /\ UNCHANGED <<shares, files, accessVars, versionVars, chunkVars, resetVars, blob, enc>>
(***************************** specifications ******************************)
NoAccess ==
    /\ now = 0
    /\ req = [w \in Workers |-> IdleReq]
    /\ secret = [s \in ShareIds |-> 0]
    /\ attempts = [s \in ShareIds |-> 0]
    /\ granted = [s \in ShareIds |-> 0]
    /\ started = 0

NoUploads ==
    /\ up = [u \in Uploaders |-> IdleUp]
    /\ seen = NoRead

NoAssembly ==
    /\ dir = <<>>
    /\ fragments = <<>>
    /\ reads = NoReads
    /\ asm = IdleAsm

\* One file with one share on it, created with any expiry, quota and password.
InitShare ==
    /\ now = 0
    /\ files = Insert(<<>>, 1, FileDefaults)
    /\ \E e \in {None} \cup {Some(t) : t \in 1..MaxTime},
          m \in {None} \cup {Some(n) : n \in 0..MaxMax},
          pw \in Passwords, salt \in Salts :
          /\ shares = Insert(<<>>, 1, NewShare(1, e, m, SetPassword(pw, salt)))
          /\ secret = [s \in ShareIds |-> IF s = 1 THEN pw ELSE 0]
    /\ req = [w \in Workers |-> IdleReq]
    /\ attempts = [s \in ShareIds |-> 0]
    /\ granted = [s \in ShareIds |-> 0]
    /\ started = 0
    /\ NoUploads
    /\ NoAssembly
    /\ NoReset
    /\ NoCrypto

\* Requests are handled concurrently, one handler step at a time.
Next ==
    \/ \E w \in Workers, s \in ShareIds : Lookup(w, s)
    \/ \E w \in Workers : Validate(w)
    \/ \E w \in Workers, pw \in Passwords : Authenticate(w, pw)
    \/ \E w \in Workers : IncrementDownloadCount(w)
    \/ \E s \in ShareIds : Revoke(s)
    \/ Tick

Spec == InitShare /\ [][Next]_vars

Quiet == \A w \in Workers : req[w].pc = "idle"

Others(w) == \A v \in Workers \ {w} : req[v].pc = "idle"

\* Requests are handled one after the other.
SeqNext ==
    \/ \E w \in Workers, s \in ShareIds : Others(w) /\ Lookup(w, s)
    \/ \E w \in Workers : Others(w) /\ Validate(w)
    \/ \E w \in Workers, pw \in Passwords : Others(w) /\ Authenticate(w, pw)
    \/ \E w \in Workers : Others(w) /\ IncrementDownloadCount(w)
    \/ \E s \in ShareIds : Quiet /\ Revoke(s)
    \/ Tick

SpecSeq == InitShare /\ [][SeqNext]_vars

\* An empty database.
InitFiles ==
    /\ files = <<>>
    /\ shares = <<>>
    /\ NoAccess
    /\ NoUploads
    /\ NoAssembly
    /\ NoReset
    /\ NoCrypto

\* Initial uploads, new versions uploaded concurrently, and readers.
VersionsNext ==
    \/ UploadFile
    \/ \E u \in Uploaders, f \in FileIds : BeginVersion(u, f)
    \/ \E u \in Uploaders : CommitVersion(u)
    \/ \E f \in FileIds : ReadCurrent(f)

SpecVersions == InitFiles /\ [][VersionsNext]_vars

\* Uploads by one worker, share creation and deletion.
FilesNext ==
    \/ UploadFile
    \/ \E f \in FileIds : BeginVersion("u1", f)
    \/ CommitVersion("u1")
    \/ \E f \in FileIds : CreateShare(f)
    \/ \E f \in FileIds : DeleteFile(f)

SpecFiles == InitFiles /\ [][FilesNext]_vars

\* A working directory holding up to MaxChunks fragments of any names and
\* contents, and possibly a file that is no fragment.
InitChunks ==
    /\ files = <<>>
    /\ shares = <<>>
    /\ NoAccess
    /\ NoUploads
    /\ \E S \in {T \in SUBSET ChunkNames : Cardinality(T) <= MaxChunks},
          other \in SUBSET {MetaName} :
          \E c \in [S \cup other -> Contents] : dir = c
    /\ fragments = dir
    /\ reads = NoReads
    /\ asm = [IdleAsm EXCEPT !.pc = "start"]
    /\ NoReset
    /\ NoCrypto

\* The password-reset calls on one user, in any order, as time passes.
ResetNext ==
    \/ GeneratePasswordResetToken
    \/ \E token \in TokenArgs : VerifyPasswordResetToken(token)
    \/ ClearPasswordResetToken
    \/ Tick

SpecReset == InitFiles /\ [][ResetNext]_vars

\* One file is encrypted, its stored ciphertext is tampered with, and it is
\* decrypted with any key and nonce.
CryptoNext ==
    \/ \E plaintext \in Payloads, key \in {None} \cup {Some(x) : x \in Keys},
          k \in KeyValues, n \in Nonces : EncryptFile(plaintext, key, k, n)
    \/ \E i \in 1..MaxLen : FlipBit(i)
    \/ FlipTagBit
    \/ \E key \in Keys, nonce \in Nonces : DecryptFile(key, nonce)

SpecCrypto == InitFiles /\ [][CryptoNext]_vars

ChunksNext ==
    \/ ListAndSort
    \/ CreateTemp
    \/ CopyChunk
    \/ ReadFails
    \/ WriteFails
    \/ UnlinkChunk
    \/ UnlinkFails
    \/ Cleanup
    \/ ReturnPath

SpecChunks == InitChunks /\ [][ChunksNext]_vars

(******************************* claims ************************************)
\* What the specification calls Expired and Exhausted.
SpecExpired(sh, t) == IsSet(sh.expires_at) /\ t >= Val(sh.expires_at)

SpecExhausted(sh) == IsSet(sh.max_downloads) /\ sh.download_count >= Val(sh.max_downloads)

\* C1: of the concurrent accesses of a share with max_downloads = 1, at most
\* one succeeds (the validity check and the increment are one atomic step).
C1_AtMostOneGrant ==
    \A s \in DOMAIN shares :
        shares[s].max_downloads = Some(1) => granted[s] <= 1

\* C2: download_count never exceeds max_downloads when max_downloads is set.
C2_CountWithinMax ==
    \A s \in DOMAIN shares :
        IsSet(shares[s].max_downloads)
            => shares[s].download_count <= Val(shares[s].max_downloads)

\* The shares C3 is about: a quota of at least 1, no password, not expired.
QuotaShare(s) ==
    /\ s \in DOMAIN shares
    /\ IsSet(shares[s].max_downloads) /\ Val(shares[s].max_downloads) >= 1
    /\ ~IsSet(shares[s].password_hash)
    /\ ~SpecExpired(shares[s], now)

\* C3: sequential accesses of a share with max_downloads = N >= 1: the first N
\* succeed and each adds exactly 1 to download_count, every later one fails
\* with Exhausted and leaves download_count at N.
C3_Quota ==
    /\ [](\A s \in ShareIds :
            QuotaShare(s) /\ Quiet
                => /\ granted[s] = Min(attempts[s], Val(shares[s].max_downloads))
                   /\ shares[s].download_count = granted[s])
    /\ [][\A w \in Workers :
            LET s == req[w].share
            IN  (req[w].pc # "idle" /\ req'[w].pc # req[w].pc /\ QuotaShare(s))
                => LET n == shares[s].download_count
                   IN IF n < Val(shares[s].max_downloads)
                      THEN \/ req'[w].pc \in {"valid", "authed"} /\ shares' = shares
                           \/ /\ req[w].pc = "authed"
                              /\ req'[w].result = "ok"
                              /\ s \in DOMAIN shares'
                              /\ shares'[s].download_count = n + 1
                      ELSE /\ req'[w].result = "Exhausted"
                           /\ shares' = shares]_vars

C3_Witness ==
    /\ Quiet
    /\ QuotaShare(1)
    /\ shares[1].max_downloads = Some(2)
    /\ attempts[1] = 3
    /\ granted[1] = 2
    /\ \E w \in Workers : req[w].result = "Exhausted"

\* C4: a share with expires_at set is Expired at every time now >= expires_at,
\* the instant now = expires_at included, and an access validated at such a
\* time fails with Expired whatever the counters are.
C4_ExpiredFromExpiry ==
    [][/\ \A s \in DOMAIN shares' :
              SpecExpired(shares'[s], now') => ~IsValid(shares'[s], now')
       /\ \A w \in Workers :
              (/\ req[w].pc = "loaded"
               /\ req'[w].pc # "loaded"
               /\ SpecExpired(Val(req[w].obj), now))
                  => req'[w].result = "Expired"]_vars

\* C5: for an Active share with a password verifier, an access with a password
\* that does not match fails with WrongPassword and changes no field of the
\* share; an access with the matching password succeeds.
C5_Password ==
    [][\A w \in Workers :
         LET s == req[w].share
         IN /\ (/\ req[w].pc = "valid"
                /\ req'[w].pc # "valid"
                /\ IsSet(Val(req[w].obj).password_hash))
                   => IF req'[w].password = secret[s]
                      THEN req'[w].pc = "authed" /\ shares' = shares
                      ELSE /\ req'[w].pc = "idle"
                           /\ req'[w].result = "WrongPassword"
                           /\ shares' = shares
            /\ (/\ req[w].pc = "authed"
                /\ req'[w].pc # "authed"
                /\ IsSet(Val(req[w].obj).password_hash))
                   => /\ req[w].password = secret[s]
                      /\ req'[w].result = "ok"]_vars

C5_Witness ==
    /\ 1 \in DOMAIN shares
    /\ IsSet(shares[1].password_hash)
    /\ shares[1].download_count = 1
    /\ \E w, v \in Workers :
          /\ req[w].share = 1 /\ req[w].result = "WrongPassword"
          /\ req[w].password # secret[1]
          /\ req[v].share = 1 /\ req[v].result = "ok"
          /\ req[v].password = secret[1]

\* A share that is Expired, Exhausted or revoked.
Terminal(s) ==
    \/ s \notin DOMAIN shares
    \/ SpecExpired(shares[s], now)
    \/ SpecExhausted(shares[s])

\* C6: Expired, Exhausted and Revoked are terminal: no step takes a share that
\* is in one of them back to Active.
C6_Terminal == [][\A s \in ShareIds : Terminal(s) => Terminal(s)']_vars

\* C7: every version chain has exactly one current File, the one with the
\* highest version number; version numbers start at 1, and a new version has
\* version = previous current version + 1 and parent = that version.
C7_OneCurrent ==
    \A f \in DOMAIN files :
        /\ Cardinality(CurrentOf(f)) = 1
        /\ \A g \in CurrentOf(f) : \A h \in Chain(f) : files[h].version <= files[g].version
        /\ IF IsSet(files[f].parent_id)
           THEN LET p == Val(files[f].parent_id)
                IN /\ p \in DOMAIN files
                   /\ files[f].version = files[p].version + 1
                   /\ ~files[p].is_current
                   /\ \A g \in DOMAIN files : files[g].parent_id = Some(p) => g = f
           ELSE files[f].version = 1

C7_Witness ==
    \E f, g \in DOMAIN files :
        /\ files[f].version = 3 /\ files[f].is_current
        /\ g \notin Chain(f) /\ files[g].is_current

\* C8: upload_new_version is atomic: no reader sees a chain with zero or with
\* two current versions, and concurrent calls on one chain head leave neither
\* two current versions nor two Files with the same version number.
C8_AtomicNewVersion ==
    /\ seen.status # "ChainInvariantViolation"
    /\ seen.status = "ok" => seen.file \in DOMAIN files
    /\ \A f \in DOMAIN files :
          /\ Cardinality(CurrentOf(f)) = 1
          /\ \A g, h \in Chain(f) : files[g].version = files[h].version => g = h

C8_Witness ==
    /\ \E u, v \in Uploaders :
          /\ up[u].result = "ok" /\ up[v].result = "Conflict"
          /\ up[u].head = up[v].head
    /\ seen.status = "ok"
    /\ files[seen.file].version = 2

\* C9: deleting any member of a version chain deletes every File of the chain,
\* ancestors as well as descendants, and every Share on one of them.
C9_DeleteWholeChain ==
    [][\A f \in DOMAIN files :
          f \notin DOMAIN files'
              => /\ \A g \in Chain(f) : g \notin DOMAIN files'
                 /\ \A s \in DOMAIN shares :
                       shares[s].file_id \in Chain(f) => s \notin DOMAIN shares']_vars

\* The fragments of the working directory and their sequence indices.
Frags == {n \in DOMAIN fragments : IsChunk(n)}

IndexOf(n) == ParseInt(n[2])

Indices == {IndexOf(n) : n \in Frags}


\* The fragment contents concatenated in ascending numeric index order.
RECURSIVE ConcatFrom(_, _)
ConcatFrom(lo, hi) ==
    IF lo > hi THEN <<>>
    ELSE fragments[CHOOSE n \in Frags : IndexOf(n) = lo] \o ConcatFrom(lo + 1, hi)

LowIndex == CHOOSE a \in Indices : \A b \in Indices : a <= b

HighIndex == CHOOSE a \in Indices : \A b \in Indices : b <= a

\* Distinct indices forming a contiguous range.
ContiguousDistinct ==
    /\ Frags # {}
    /\ \A m, n \in Frags : IndexOf(m) = IndexOf(n) => m = n
    /\ \A k \in LowIndex..HighIndex : k \in Indices

\* C10: for fragments with distinct indices forming a contiguous range, the
\* output is the fragment contents concatenated in ascending numeric index
\* order, whatever order the directory is listed in.
C10_NumericOrder ==
    (asm.pc = "done" /\ ContiguousDistinct)
        => /\ IsSet(asm.out)
           /\ Val(asm.out) = ConcatFrom(LowIndex, HighIndex)

C10_Witness ==
    /\ asm.pc = "done"
    /\ Frags = {<<"chunk", <<9>>>>, <<"chunk", <<1, 0>>>>, <<"chunk", <<1, 1>>>>}
    /\ fragments[<<"chunk", <<9>>>>] = <<"B", "C">>
    /\ fragments[<<"chunk", <<1, 0>>>>] = <<"A">>
    /\ MetaName \in DOMAIN fragments
    /\ asm.out = Some(<<"B", "C", "A">> \o fragments[<<"chunk", <<1, 1>>>>])

\* Two fragments of the working directory carry the same sequence index.
DuplicateIndex == \E m, n \in Frags : m # n /\ IndexOf(m) = IndexOf(n)

\* C11: with two fragments of the same sequence index, assembly fails with
\* DuplicateChunkError, writes no output and leaves no partial output file.
\* (Stated of the runs that end: they end in an error and without an output
\* file; a run that an I/O failure ended is not held against the claim.)
C11_DuplicateRejected ==
    (DuplicateIndex /\ asm.pc \in {"done", "raised"})
        => /\ asm.pc = "raised"
           /\ IsSet(asm.error)
           /\ ~IsSet(asm.out)

\* The fragments the loop has consumed when it is at position i.
Consumed == {asm.chunk_files[j] : j \in 1..(asm.i - 1)}

\* C12: after an I/O failure while reading a fragment, writing the output or
\* deleting a fragment, the partial output file no longer exists, the error is
\* propagated, and the fragments consumed before the failure stay deleted.
C12_FailureCleansUp ==
    /\ asm.pc = "raised"
          => /\ ~IsSet(asm.out)
             /\ IsSet(asm.error)
             /\ \A n \in Consumed : n \notin DOMAIN dir
             /\ \A n \in DOMAIN fragments: n \notin Consumed => n \in DOMAIN dir
    /\ asm.pc = "done" => ~IsSet(asm.error)

C12_Witness ==
    /\ asm.pc = "raised"
    /\ asm.error = Some("write")
    /\ asm.i = 2
    /\ Len(asm.chunk_files) = 3
    /\ reads[asm.chunk_files[2]] = 1

\* C13: every fragment is read exactly once and deleted right after its bytes
\* are copied, before the next one is read; after a successful assembly no
\* chunk_ fragment is left in the working directory.
C13_ConsumedOnce ==
    /\ \A n \in DOMAIN reads : reads[n] <= 1
    /\ asm.pc \in {"copy", "unlink", "done"}
          => /\ \A n \in Consumed : n \notin DOMAIN dir /\ reads[n] = 1
             /\ \A j \in asm.i..Len(asm.chunk_files) :
                   /\ asm.chunk_files[j] \in DOMAIN dir
                   /\ reads[asm.chunk_files[j]] =
                         (IF asm.pc = "unlink" /\ j = asm.i THEN 1 ELSE 0)
    /\ asm.pc = "done"
          => /\ \A n \in DOMAIN dir : ~IsChunk(n)
             /\ \A n \in Frags : reads[n] = 1
             /\ \A n \in DOMAIN fragments \ Frags : n \in DOMAIN dir /\ reads[n] = 0

C13_Witness ==
    /\ asm.pc = "done"
    /\ Cardinality(Frags) = 3
    /\ DOMAIN dir = {MetaName}


\* C16: a share whose max_downloads is set, 0 included, and which is not
\* expired, is not valid exactly when download_count >= max_downloads.
C16_ExhaustedWhenSet ==
    \A s \in DOMAIN shares :
        (IsSet(shares[s].max_downloads) /\ ~SpecExpired(shares[s], now))
            => (~IsValid(shares[s], now) <=> SpecExhausted(shares[s]))

\* C17: verify_password_reset_token(t) returns true only if t is the token of
\* the latest generate_password_reset_token call, not cleared since, and the
\* time of the call is strictly before that token's expiry, one hour after its
\* generation.  So it returns false for every argument, None included, when no
\* token was generated or the token was cleared, and for an earlier token once
\* a new one was generated.
C17_ResetToken ==
    IsSet(verified) =>
        LET v == Val(verified)
        IN /\ v.result => /\ IsSet(v.latest.token)
                          /\ v.arg = v.latest.token
                          /\ v.at < v.latest.at + ResetLifetime
           /\ ~IsSet(v.latest.token) => ~v.result
           /\ (IsSet(v.arg) /\ v.arg # v.latest.token) => ~v.result

\* The second token generated is accepted, after the first was.
C17_Witness ==
    /\ IsSet(verified)
    /\ Val(verified).result
    /\ Val(verified).arg = Some(2)
    /\ Val(verified).at >= 1

\* A decrypt_file call that read the stored file, after encrypt_file wrote it.
Decrypted == IsSet(enc) /\ IsSet(dec) /\ IsSet(Val(dec).read)

\* The call was given the file as encrypt_file wrote it and the key and nonce
\* encrypt_file returned.
SameInputs ==
    /\ Val(dec).read = Some(Val(enc).blob)
    /\ Val(dec).key = Val(enc).key
    /\ Val(dec).nonce = Val(enc).nonce

\* C14: decrypt_file, applied to the file encrypt_file wrote and given the key
\* and nonce encrypt_file returned, yields exactly the payload, whether the
\* key was generated by encrypt_file or supplied by the caller.
C14_RoundTrip ==
    (Decrypted /\ SameInputs)
        => /\ Val(dec).status = "ok"
           /\ Val(dec).plaintext = Some(Val(enc).payload)

\* A payload of MaxLen bits round-trips under a supplied 128-bit key.
C14_Witness ==
    /\ Decrypted /\ SameInputs
    /\ Val(enc).supplied
    /\ Val(enc).key.len = 16
    /\ Len(Val(enc).payload) = MaxLen
    /\ Val(dec).status = "ok"

\* C15: decrypt_file raises and returns no plaintext whenever its key, its
\* nonce or the stored ciphertext differs from those of the encryption, and
\* what it returns is never anything but the original payload.
C15_TamperDetected ==
    Decrypted
        => /\ ~SameInputs => /\ Val(dec).status # "ok"
                             /\ ~IsSet(Val(dec).plaintext)
           /\ IsSet(Val(dec).plaintext) => Val(dec).plaintext = Some(Val(enc).payload)

\* The right key and nonce, one bit of the ciphertext flipped: InvalidTag.
C15_Witness ==
    /\ Decrypted
    /\ Val(dec).key = Val(enc).key
    /\ Val(dec).nonce = Val(enc).nonce
    /\ Val(dec).read # Some(Val(enc).blob)
    /\ Val(Val(dec).read).tag = Val(enc).blob.tag
    /\ Val(dec).status = "InvalidTag"

====
